---- MODULE Spec2Model ----
(***************************************************************************)
(* Schema inference engine of edsm-dumps-model: the generator that widens  *)
(* a running Types aggregate one document at a time                        *)
(* (SchemaGenerator), the canonicalizer that turns the aggregate into an   *)
(* id-addressed Schema (SchemaBuilder, SchemaType::parse,                  *)
(* SchemaTypes::parse, Struct::parse) and the renderer (Schema::print).    *)
(*                                                                         *)
(* src/src/schema.rs declares `pub mod types` but src/src/schema/types.rs  *)
(* is not part of the source tree at hand: Type, Types, ObjectScheme,      *)
(* Type::from_value and Types::add are modelled from sections 3 and 4.3 of *)
(* the specification.                                                      *)
(***************************************************************************)
EXTENDS Integers, Sequences, FiniteSets, TLC

VARIABLES pc, criteria, types, seen, schema, pos, out, result, attempts, rejected

vars == <<pc, criteria, types, seen, schema, pos, out, result, attempts, rejected>>

\* Largest number of add_value calls of one run.
MaxDocs == 3

(***************************************************************************)
(* JSON values (serde_json::Value).  A number keeps whether it is integral *)
(* and its sign, which is all the numeric classification reads.            *)
(***************************************************************************)
VNull == [j |-> "null"]
VBool(b) == [j |-> "bool", b |-> b]
VInt(n) == [j |-> "number", integral |-> TRUE, n |-> n]
VFloat(n) == [j |-> "number", integral |-> FALSE, n |-> n]
VStr(s) == [j |-> "string", s |-> s]
VArr(items) == [j |-> "array", items |-> items]
VObj(fields) == [j |-> "object", fields |-> fields]

\* {"body":{"type":"planet","radius":1}}
DocPlanet == VObj([f \in {"body"} |->
                VObj([g \in {"type", "radius"} |->
                    IF g = "type" THEN VStr("planet") ELSE VInt(1)])])
\* {"body":{"type":"star","luminosity":2}}
DocStar == VObj([f \in {"body"} |->
                VObj([g \in {"type", "luminosity"} |->
                    IF g = "type" THEN VStr("star") ELSE VInt(2)])])
\* {"body":{"type":"planet","mass":-3}}
DocPlanet2 == VObj([f \in {"body"} |->
                VObj([g \in {"type", "mass"} |->
                    IF g = "type" THEN VStr("planet") ELSE VInt(-3)])])
\* {"a":1}
DocA == VObj([f \in {"a"} |-> VInt(1)])
\* {"a":"x"}
DocAStr == VObj([f \in {"a"} |-> VStr("x")])
\* {"a":1,"b":"x"}
DocAB == VObj([f \in {"a", "b"} |-> IF f = "a" THEN VInt(1) ELSE VStr("x")])
\* {"a":null,"b":{"a":true}}
DocNest == VObj([f \in {"a", "b"} |->
                IF f = "a" THEN VNull ELSE VObj([g \in {"a"} |-> VBool(TRUE)])])
\* [{"a":1}]
DocArrObj == VArr(<<DocA>>)
\* [3.14, null, {"b":"x"}]
DocArrMix == VArr(<<VFloat(3), VNull, VObj([f \in {"b"} |-> VStr("x")])>>)
\* []
DocArrEmpty == VArr(<<>>)

\* The documents a run draws from.
Docs ==
    <<VNull, VInt(42), DocA, DocAStr, DocAB, DocNest, DocPlanet, DocStar,
      DocPlanet2, DocArrObj, DocArrMix, DocArrEmpty>>

DocIds == DOMAIN Docs

(***************************************************************************)
(* Criteria: field path -> discriminant field.  A dotted path is kept as   *)
(* the sequence of its field names; the map is a set of <<path, field>>    *)
(* pairs with at most one pair per path.                                   *)
(***************************************************************************)
Criteria_new == {}

Criteria_add(c, field_name, type_field) ==
    {e \in c : e[1] # field_name} \cup {<<field_name, type_field>>}

\* is_split_enum that finds no entry.
is_split_enum_none(c, field_path) == {}

\* Option<&str> as a set: {} is None, {d} is Some(d).
is_split_enum(c, field_path) == {e[2] : e \in {x \in c : x[1] = field_path}}

\* The entries a configuration may register.
CriteriaPaths == {<<"body">>}
CriteriaFields == {"type"}

(***************************************************************************)
(* Shape algebra: Type, Types, ObjectScheme.                               *)
(***************************************************************************)
NoLabel == ""

TNull == [k |-> "Null"]
TScalar(kind) == [k |-> kind]
TArray(ts) == [k |-> "Array", ts |-> ts]
TObject(label, o) == [k |-> "Object", label |-> label, o |-> o]

Types_empty == [nullable |-> FALSE, types |-> {}]

is_nullable(ts) == ts.nullable

variants_count(ts) == Cardinality({t \in ts.types : t # TNull})

AsNullable(ts) == [ts EXCEPT !.nullable = TRUE]

RECURSIVE Types_add(_, _)
RECURSIVE Types_add_all(_, _)
RECURSIVE Types_merge(_, _)

ObjectScheme_merge(o1, o2) ==
    [f \in (DOMAIN o1) \cup (DOMAIN o2) |->
        IF f \in DOMAIN o1 /\ f \in DOMAIN o2 THEN Types_merge(o1[f], o2[f])
        ELSE IF f \in DOMAIN o1 THEN AsNullable(o1[f])
        ELSE AsNullable(o2[f])]

\* The shape of ts that t merges with: the Array for an Array, the Object of
\* the same label for an Object; none for Null and the scalars.
MergePartner(ts, t) ==
    CASE t.k = "Array" -> {s \in ts.types : s.k = "Array"}
      [] t.k = "Object" ->
            {s \in {x \in ts.types : x.k = "Object"} : s.label = t.label}
      [] OTHER -> {}

Types_add(ts, t) ==
    LET partner == MergePartner(ts, t)
        nullable == ts.nullable \/ t = TNull
    IN  IF partner = {}
        THEN [nullable |-> nullable, types |-> ts.types \cup {t}]
        ELSE LET s == CHOOSE x \in partner : TRUE
                 merged == IF t.k = "Array"
                           THEN TArray(Types_merge(s.ts, t.ts))
                           ELSE TObject(t.label, ObjectScheme_merge(s.o, t.o))
             IN  [nullable |-> nullable,
                  types |-> (ts.types \ {s}) \cup {merged}]

Types_add_all(ts, shapes) ==
    IF shapes = {} THEN ts
    ELSE LET t == CHOOSE x \in shapes : TRUE
         IN  Types_add_all(Types_add(ts, t), shapes \ {t})

Types_merge(a, b) ==
    LET u == Types_add_all(a, b.types)
    IN  [u EXCEPT !.nullable = a.nullable \/ b.nullable \/ u.nullable]

RECURSIVE Type_from_value(_, _, _)
RECURSIVE ArrayTypes(_, _, _, _)

\* The union of the shapes of the first n elements of an array.
ArrayTypes(c, path, items, n) ==
    IF n = 0 THEN Types_empty
    ELSE Types_add(ArrayTypes(c, path, items, n - 1),
                   Type_from_value(c, path, items[n]))

ObjectLabel(c, path, fields) ==
    LET d == is_split_enum(c, path)
        known == {x \in d : x \in DOMAIN fields}
    IN  IF known = {} THEN NoLabel
        ELSE LET v == fields[CHOOSE x \in known : TRUE]
             IN  IF v.j = "string" THEN v.s ELSE NoLabel

Type_from_value(c, path, val) ==
    CASE val.j = "null" -> TNull
      [] val.j = "bool" -> TScalar("Bool")
      [] val.j = "number" ->
            IF val.integral
            THEN IF val.n >= 0 THEN TScalar("U64") ELSE TScalar("I64")
            ELSE TScalar("Float")
      [] val.j = "string" -> TScalar("String")
      [] val.j = "array" ->
            TArray(ArrayTypes(c, path, val.items, Len(val.items)))
      [] val.j = "object" ->
            TObject(ObjectLabel(c, path, val.fields),
                    [f \in DOMAIN val.fields |->
                        Types_add(Types_empty,
                                  Type_from_value(c, Append(path, f),
                                                  val.fields[f]))])

(***************************************************************************)
(* SchemaGenerator.                                                        *)
(***************************************************************************)
SchemaGenerator_new(c) == [criteria |-> c, types |-> Types_empty]

\* add_value that keeps only the newest document's shape.
add_value_overwrite(c, ts, val) ==
    Types_add(Types_empty, Type_from_value(c, <<>>, val))

add_value(c, ts, val) == Types_add(ts, Type_from_value(c, <<>>, val))

(***************************************************************************)
(* Iteration orders.  Types and ObjectScheme iterate in the order of their *)
(* keys: shapes in the order the variants of Type are declared, Objects of *)
(* one position by label, fields by field name.  Strings are ordered by    *)
(* their place in the sorted lists below.                                  *)
(***************************************************************************)
KindOrder == <<"Null", "Bool", "U64", "I64", "Float", "String", "Array", "Object">>
LabelOrder == <<NoLabel, "planet", "star">>
FieldOrder == <<"a", "b", "body", "luminosity", "mass", "radius", "type">>

IndexOf(seq, x) == CHOOSE i \in DOMAIN seq : seq[i] = x

TypeLess(s, t) ==
    \/ IndexOf(KindOrder, s.k) < IndexOf(KindOrder, t.k)
    \/ /\ s.k = "Object" /\ t.k = "Object"
       /\ IndexOf(LabelOrder, s.label) < IndexOf(LabelOrder, t.label)

\* Types::into_iter(): the shapes of a position, in order.
RECURSIVE Types_into_iter(_)
Types_into_iter(shapes) ==
    IF shapes = {} THEN <<>>
    ELSE LET first == CHOOSE t \in shapes :
                          \A u \in shapes \ {t} : TypeLess(t, u)
         IN  <<first>> \o Types_into_iter(shapes \ {first})

\* The keys of a map keyed by String, ascending.
SortedFields(m) ==
    LET RECURSIVE Pick(_)
        Pick(n) == IF n = 0 THEN <<>>
                   ELSE IF FieldOrder[n] \in DOMAIN m
                        THEN Append(Pick(n - 1), FieldOrder[n])
                        ELSE Pick(n - 1)
    IN  Pick(Len(FieldOrder))

\* ObjectScheme::into_iter(): the field names of an object position, in
\* field-name order.
ObjectScheme_into_iter(o) == SortedFields(o)

NonNull(seq) == SelectSeq(seq, LAMBDA t : t # TNull)

(***************************************************************************)
(* SchemaBuilder.                                                          *)
(***************************************************************************)
MapInsert(m, key, v) ==
    [x \in (DOMAIN m) \cup {key} |-> IF x = key THEN v ELSE m[x]]

\* SchemaBuilder::new that starts the counter at one.
SchemaBuilder_new_from_one ==
    [structs |-> <<>>, enums |-> <<>>, id |-> 1, panicked |-> FALSE]

\* panicked is not a field of the struct: it records that the canonicalizer
\* has panicked (a failed unwrap, unreachable!) with this builder in hand.
SchemaBuilder_new == [structs |-> <<>>, enums |-> <<>>, id |-> 0, panicked |-> FALSE]

\* A panic while the builder is in use.
Panic(b) == [b EXCEPT !.panicked = TRUE]

\* add_struct that loses the definition.
add_struct_dropped(b, id, st) == b


add_struct(b, id, st) == [b EXCEPT !.structs = MapInsert(@, id, st)]

add_enum(b, id, e) == [b EXCEPT !.enums = MapInsert(@, id, e)]

\* next_id that steps the counter by two.
next_id_by_two(b) == [b EXCEPT !.id = @ + 2]

\* The builder after next_id(); the id handed out is the old b.id.
next_id(b) == [b EXCEPT !.id = @ + 1]

SchemaBuilder_build(b, root) ==
    [root |-> root, structs |-> b.structs, enums |-> b.enums]

(***************************************************************************)
(* SchemaType, SchemaTypes, Struct, Enum, Variant.                         *)
(***************************************************************************)
Unit == [k |-> "Unit"]
SArray(t) == [k |-> "Array", elem |-> t]
SStruct(id) == [k |-> "Struct", id |-> id]
SEnum(id) == [k |-> "Enum", id |-> id]

Variant_primitive(s) == [v |-> "Primitive", name |-> s]
Variant_Struct(id) == [v |-> "Struct", id |-> id]
Variant_Enum(id) == [v |-> "Enum", id |-> id]

\* varinat that tags every struct arm alike.
varinat_struct_untagged(typ) ==
    CASE typ.k = "Enum" -> Variant_Enum(typ.id)
      [] OTHER -> Variant_primitive(typ.k)

varinat(typ) ==
    CASE typ.k = "Struct" -> Variant_Struct(typ.id)
      [] typ.k = "Enum" -> Variant_Enum(typ.id)
      [] OTHER -> Variant_primitive(typ.k)

Enum_new == <<>>

Enum_add(e, variant, ty) == MapInsert(e, variant, ty)

is_struct(st) == st.typ.k = "Struct"

is_enum(st) == st.typ.k = "Enum"

RECURSIVE SchemaType_parse(_, _)
RECURSIVE SchemaTypes_parse(_, _)
RECURSIVE Struct_parse(_, _, _, _)
RECURSIVE EnumArms(_, _, _, _)

\* The loop of Struct::parse over the first n fields: builder and field map.
Struct_parse(b, o, names, n) ==
    IF n = 0 THEN [b |-> b, t |-> <<>>]
    ELSE LET done == Struct_parse(b, o, names, n - 1)
             r == SchemaType_parse(done.b, o[names[n]])
         IN  [b |-> r.b, t |-> MapInsert(done.t, names[n], r.t)]

\* The loop of the enum branch over the first n shapes: builder and Enum.
EnumArms(b, e, shapes, n) ==
    IF n = 0 THEN [b |-> b, t |-> e]
    ELSE LET done == EnumArms(b, e, shapes, n - 1)
             r == SchemaTypes_parse(done.b, shapes[n])
         IN  [b |-> r.b, t |-> Enum_add(done.t, varinat(r.t), r.t)]

SchemaTypes_parse(b, t) ==
    CASE t.k = "Null" -> [b |-> Panic(b), t |-> Unit]
      [] t.k = "Array" ->
            LET r == SchemaType_parse(b, t.ts)
            IN  [b |-> r.b, t |-> SArray(r.t)]
      [] t.k = "Object" ->
            LET id == b.id
                names == ObjectScheme_into_iter(t.o)
                r == Struct_parse(next_id(b), t.o, names, Len(names))
            IN  [b |-> add_struct(r.b, id, r.t), t |-> SStruct(id)]
      [] OTHER -> [b |-> b, t |-> [k |-> t.k]]

\* SchemaType::parse that forgets is_nullable in the 1-variant branch.
SchemaType_parse_not_nullable(b, ts) ==
    LET nullable == is_nullable(ts)
        shapes == NonNull(Types_into_iter(ts.types))
    IN  CASE variants_count(ts) = 0 ->
                [b |-> b, t |-> [is_nullable |-> nullable, typ |-> Unit]]
          [] variants_count(ts) = 1 ->
                LET r == SchemaTypes_parse(b, shapes[1])
                IN  [b |-> r.b, t |-> [is_nullable |-> FALSE, typ |-> r.t]]
          [] OTHER ->
                LET id == b.id
                    r == EnumArms(next_id(b), Enum_new, shapes, Len(shapes))
                IN  [b |-> add_enum(r.b, id, r.t),
                     t |-> [is_nullable |-> nullable, typ |-> SEnum(id)]]

\* SchemaType::parse that makes an Enum of a single variant too.
SchemaType_parse_enum_of_one(b, ts) ==
    LET nullable == is_nullable(ts)
        shapes == NonNull(Types_into_iter(ts.types))
    IN  CASE variants_count(ts) = 0 ->
                [b |-> b, t |-> [is_nullable |-> nullable, typ |-> Unit]]
          [] OTHER ->
                LET id == b.id
                    r == EnumArms(next_id(b), Enum_new, shapes, Len(shapes))
                IN  [b |-> add_enum(r.b, id, r.t),
                     t |-> [is_nullable |-> nullable, typ |-> SEnum(id)]]

\* SchemaType::parse whose 1-variant branch takes the first shape unfiltered.
SchemaType_parse_unfiltered(b, ts) ==
    LET nullable == is_nullable(ts)
        shapes == NonNull(Types_into_iter(ts.types))
    IN  CASE variants_count(ts) = 0 ->
                [b |-> b, t |-> [is_nullable |-> nullable, typ |-> Unit]]
          [] variants_count(ts) = 1 ->
                LET r == SchemaTypes_parse(b, Types_into_iter(ts.types)[1])
                IN  [b |-> r.b, t |-> [is_nullable |-> nullable, typ |-> r.t]]
          [] OTHER ->
                LET id == b.id
                    r == EnumArms(next_id(b), Enum_new, shapes, Len(shapes))
                IN  [b |-> add_enum(r.b, id, r.t),
                     t |-> [is_nullable |-> nullable, typ |-> SEnum(id)]]

SchemaType_parse(b, ts) ==
    LET nullable == is_nullable(ts)
        shapes == NonNull(Types_into_iter(ts.types))
    IN  CASE variants_count(ts) = 0 ->
                [b |-> b, t |-> [is_nullable |-> nullable, typ |-> Unit]]
          [] variants_count(ts) = 1 ->
                \* nth(0).unwrap() panics when the filter leaves nothing.
                IF shapes = <<>>
                THEN [b |-> Panic(b), t |-> [is_nullable |-> nullable, typ |-> Unit]]
                ELSE LET r == SchemaTypes_parse(b, shapes[1])
                     IN  [b |-> r.b, t |-> [is_nullable |-> nullable, typ |-> r.t]]
          [] OTHER ->
                LET id == b.id
                    r == EnumArms(next_id(b), Enum_new, shapes, Len(shapes))
                IN  [b |-> add_enum(r.b, id, r.t),
                     t |-> [is_nullable |-> nullable, typ |-> SEnum(id)]]

\* SchemaGenerator::build: the builder as the canonicalizer leaves it, and the
\* Schema made of it.
BuildRun(ts) == SchemaType_parse(SchemaBuilder_new, ts)

build(ts) == SchemaBuilder_build(BuildRun(ts).b, BuildRun(ts).t)

NoSchema == [root |-> [is_nullable |-> FALSE, typ |-> Unit],
             structs |-> <<>>, enums |-> <<>>]

(***************************************************************************)
(* Renderer.  Every writeln! of Schema::print, Struct::print and           *)
(* Enum::print is one write; a rendered type is the sequence of its        *)
(* tokens.                                                                 *)
(***************************************************************************)
Tok(s) == [s |-> s, id |-> 0]
TokId(s, id) == [s |-> s, id |-> id]

\* impl Display for SchemaTypes.
RECURSIVE fmt_SchemaTypes(_)
\* impl Display for SchemaType.
fmt_SchemaType(t) ==
    IF t.is_nullable
    THEN <<Tok("Option<")>> \o fmt_SchemaTypes(t.typ) \o <<Tok(">")>>
    ELSE fmt_SchemaTypes(t.typ)

fmt_SchemaTypes(typ) ==
    CASE typ.k = "Unit" -> <<Tok("()")>>
      [] typ.k = "Bool" -> <<Tok("bool")>>
      [] typ.k = "U64" -> <<Tok("u64")>>
      [] typ.k = "I64" -> <<Tok("i64")>>
      [] typ.k = "Float" -> <<Tok("f64")>>
      [] typ.k = "String" -> <<Tok("String")>>
      [] typ.k = "Array" ->
            <<Tok("Vec<")>> \o fmt_SchemaType(typ.elem) \o <<Tok(">")>>
      [] typ.k = "Struct" -> <<TokId("Struct", typ.id)>>
      [] typ.k = "Enum" -> <<TokId("Enum", typ.id)>>

\* impl Display for Variant.
fmt_Variant(v) ==
    CASE v.v = "Primitive" -> <<Tok(v.name)>>
      [] v.v = "Struct" -> <<TokId("Struct", v.id)>>
      [] v.v = "Enum" -> <<TokId("Enum", v.id)>>

\* The keys of a BTreeMap<u64, _>, ascending.
RECURSIVE SortedIds(_)
SortedIds(ids) ==
    IF ids = {} THEN <<>>
    ELSE LET m == CHOOSE i \in ids : \A j \in ids : i <= j
         IN  <<m>> \o SortedIds(ids \ {m})

\* Ord of Variant: Primitive(String) < Struct(u64) < Enum(u64).
PrimitiveOrder == <<"Array", "Bool", "Float", "I64", "String", "U64", "Unit">>
VariantOrder == <<"Primitive", "Struct", "Enum">>

VariantLess(a, b) ==
    \/ IndexOf(VariantOrder, a.v) < IndexOf(VariantOrder, b.v)
    \/ /\ a.v = b.v
       /\ IF a.v = "Primitive"
          THEN IndexOf(PrimitiveOrder, a.name) < IndexOf(PrimitiveOrder, b.name)
          ELSE a.id < b.id

RECURSIVE SortedVariants(_)
SortedVariants(vs) ==
    IF vs = {} THEN <<>>
    ELSE LET m == CHOOSE a \in vs : \A b \in vs \ {a} : VariantLess(a, b)
         IN  <<m>> \o SortedVariants(vs \ {m})

WOpen(kind, name) == [w |-> "open", kind |-> kind, name |-> name]
WClose == [w |-> "close"]
WBlank == [w |-> "blank"]

\* Struct::print: the writes it makes when none fails.
Struct_print(st, type_name) ==
    LET names == SortedFields(st)
    IN  <<WOpen("struct", type_name)>>
        \o [i \in 1..Len(names) |->
               [w |-> "field", key |-> names[i], t |-> fmt_SchemaType(st[names[i]])]]
        \o <<WClose>>

\* Enum::print: the writes it makes when none fails.
Enum_print(e, type_name) ==
    LET vs == SortedVariants(DOMAIN e)
    IN  <<WOpen("enum", type_name)>>
        \o [i \in 1..Len(vs) |->
               [w |-> "arm", variant |-> fmt_Variant(vs[i]),
                t |-> fmt_SchemaTypes(e[vs[i]])]]
        \o <<WClose>>

RECURSIVE StructDecls(_, _, _)
StructDecls(s, ids, n) ==
    IF n = 0 THEN <<>>
    ELSE StructDecls(s, ids, n - 1) \o <<WBlank>>
         \o Struct_print(s.structs[ids[n]], TokId("Struct", ids[n]))

RECURSIVE EnumDecls(_, _, _)
EnumDecls(s, ids, n) ==
    IF n = 0 THEN <<>>
    ELSE EnumDecls(s, ids, n - 1) \o <<WBlank>>
         \o Enum_print(s.enums[ids[n]], TokId("Enum", ids[n]))

\* The unwrap of the root's table entry finds nothing.
PrintPanics(s) ==
    \/ is_struct(s.root) /\ 0 \notin DOMAIN s.structs
    \/ ~is_struct(s.root) /\ is_enum(s.root) /\ 0 \notin DOMAIN s.enums

\* Schema::print: the writes it makes, in order, when none fails.
Schema_print(s) ==
    IF PrintPanics(s) THEN <<>>
    ELSE IF is_struct(s.root) \/ is_enum(s.root)
    THEN (IF is_struct(s.root)
          THEN Struct_print(s.structs[0], Tok("Root"))
          ELSE Enum_print(s.enums[0], Tok("Root")))
         \o StructDecls(s, SortedIds(DOMAIN s.structs),
                        Cardinality(DOMAIN s.structs))
         \o EnumDecls(s, SortedIds(DOMAIN s.enums), Cardinality(DOMAIN s.enums))
    ELSE <<[w |-> "wrapper", t |-> fmt_SchemaType(s.root)]>>

\* What a write to the sink returns.
SinkErrors == {"BrokenPipe", "WriteZero"}
SinkResults == {"Ok"} \cup SinkErrors

\* A write whose result is dropped.
Try_ignored(r) == "none"

\* The ? after every write: "none" goes on, anything else is returned.
Try(r) == IF r = "Ok" THEN "none" ELSE r

(***************************************************************************)
(* The run: configure the criteria, create the generator, add documents,   *)
(* build, print.                                                           *)
(***************************************************************************)
SeenCount == LET RECURSIVE Sum(_)
                 Sum(n) == IF n = 0 THEN 0 ELSE seen[n] + Sum(n - 1)
             IN  Sum(Len(Docs))

Init ==
    /\ pc = "config"
    /\ criteria = Criteria_new
    /\ types = Types_empty
    /\ seen = [d \in DocIds |-> 0]
    /\ schema = NoSchema
    /\ pos = 0
    /\ out = <<>>
    /\ result = "none"
    /\ attempts = 0
    /\ rejected = <<>>

\* Criteria::add, before the generator is created.
CriteriaAdd ==
    /\ pc = "config"
    /\ \E p \in CriteriaPaths, d \in CriteriaFields :
          /\ <<p, d>> \notin criteria
          /\ criteria' = Criteria_add(criteria, p, d)
    /\ UNCHANGED <<pc, types, seen, schema, pos, out, result, attempts, rejected>>

\* SchemaGenerator::new(criteria).
New ==
    /\ pc = "config"
    /\ pc' = "gen"
    /\ types' = SchemaGenerator_new(criteria).types
    /\ UNCHANGED <<criteria, seen, schema, pos, out, result, attempts, rejected>>

\* SchemaGenerator::add_value(val).
AddValue ==
    /\ pc = "gen"
    /\ SeenCount < MaxDocs
    /\ \E d \in DocIds :
          /\ types' = add_value(criteria, types, Docs[d])
          /\ seen' = [seen EXCEPT ![d] = @ + 1]
    /\ UNCHANGED <<pc, criteria, schema, pos, out, result, attempts, rejected>>

\* SchemaGenerator::build(self): consumes the generator; a panic of the
\* canonicalizer ends the run.
Build ==
    /\ pc = "gen"
    /\ pc' = IF BuildRun(types).b.panicked THEN "panicked" ELSE "built"
    /\ schema' = build(types)
    /\ UNCHANGED <<criteria, types, seen, pos, out, result, attempts, rejected>>

\* One write of Schema::print: the sink accepts it or rejects it.
Write ==
    /\ pc \in {"built", "printing"}
    /\ result = "none"
    /\ pos < Len(Schema_print(schema))
    /\ \E r \in SinkResults :
          /\ pc' = IF Try(r) = "none" THEN "printing" ELSE "printed"
          /\ out' = IF r = "Ok" THEN Append(out, Schema_print(schema)[pos + 1])
                    ELSE out
          /\ rejected' = IF r = "Ok" THEN rejected ELSE Append(rejected, r)
          /\ result' = Try(r)
    /\ pos' = pos + 1
    /\ attempts' = attempts + 1
    /\ UNCHANGED <<criteria, types, seen, schema>>

\* Schema::print reaches its end (or its return in the wrapper branch).
PrintReturn ==
    /\ pc \in {"built", "printing"}
    /\ pc' = "printed"
    /\ result = "none"
    /\ pos = Len(Schema_print(schema))
    /\ result' = IF PrintPanics(schema) THEN "panic" ELSE "Ok"
    /\ UNCHANGED <<criteria, types, seen, schema, pos, out, attempts, rejected>>

Next == CriteriaAdd \/ New \/ AddValue \/ Build \/ Write \/ PrintReturn

Spec == Init /\ [][Next]_vars
(***************************************************************************)
(* Properties.                                                             *)
(***************************************************************************)
\* The aggregate of the documents of a bag, added in the order of Docs.
RECURSIVE AddTimes(_, _, _, _)
AddTimes(c, ts, val, n) ==
    IF n = 0 THEN ts ELSE add_value(c, AddTimes(c, ts, val, n - 1), val)

RECURSIVE InDocsOrder(_, _, _)
InDocsOrder(c, bag, n) ==
    IF n = 0 THEN Types_empty
    ELSE AddTimes(c, InDocsOrder(c, bag, n - 1), Docs[n], bag[n])

\* The aggregate of the same bag added in the reverse order.
RECURSIVE InReverseOrder(_, _, _)
InReverseOrder(c, bag, n) ==
    IF n > Len(Docs) THEN Types_empty
    ELSE AddTimes(c, InReverseOrder(c, bag, n + 1), Docs[n], bag[n])

\* The place of a document in Docs.
Id(doc) == CHOOSE d \in DocIds : Docs[d] = doc

Support(bag) == [d \in DOMAIN bag |-> IF bag[d] > 0 THEN 1 ELSE 0]

C2_AddCommutes ==
    pc = "gen" =>
        \A d1, d2 \in DocIds :
            LET a12 == add_value(criteria, add_value(criteria, types, Docs[d1]), Docs[d2])
                a21 == add_value(criteria, add_value(criteria, types, Docs[d2]), Docs[d1])
            IN  /\ a12 = a21
                /\ Types_merge(types, add_value(criteria, add_value(criteria, Types_empty, Docs[d1]), Docs[d2]))
                     = a12
                /\ Types_merge(add_value(criteria, Types_empty, Docs[d1]), types)
                     = add_value(criteria, types, Docs[d1])

\* An aggregate holding a merged labelled Object and an Array, to which more
\* shapes are added.
C2_Witness ==
    /\ pc = "gen"
    /\ criteria # {}
    /\ seen[Id(DocPlanet)] = 1 /\ seen[Id(DocPlanet2)] = 1 /\ seen[Id(DocArrMix)] = 1
    /\ \E s \in types.types : s.k = "Array"

\* Every nullable position of a is a nullable position of b.
RECURSIVE NullableKept(_, _)
NullableKept(a, b) ==
    /\ a.nullable => b.nullable
    /\ \A s \in a.types :
          CASE s.k = "Array" ->
                  \E t \in b.types : t.k = "Array" /\ NullableKept(s.ts, t.ts)
            [] s.k = "Object" ->
                  \E t \in {x \in b.types : x.k = "Object"} :
                      /\ t.label = s.label
                      /\ \A f \in DOMAIN s.o :
                            f \in DOMAIN t.o /\ NullableKept(s.o[f], t.o[f])
            [] OTHER -> TRUE

\* C3: an add_value never makes a nullable position (root, field, array
\* element slot) non-nullable.
C3_NullableMonotone ==
    [][(pc = "gen" /\ pc' = "gen") => NullableKept(types, types')]_vars

\* Some position below the root is nullable.
RECURSIVE HasNullableBelow(_)
HasNullableBelow(ts) ==
    \E s \in ts.types :
        CASE s.k = "Array" -> s.ts.nullable \/ HasNullableBelow(s.ts)
          [] s.k = "Object" ->
                \E f \in DOMAIN s.o : s.o[f].nullable \/ HasNullableBelow(s.o[f])
          [] OTHER -> FALSE

\* Null and a nullable field were seen, and a further document was added.
C3_Witness ==
    /\ pc = "gen"
    /\ seen[Id(VNull)] = 1 /\ seen[Id(DocNest)] = 1 /\ seen[Id(DocA)] = 1
    /\ types.nullable
    /\ HasNullableBelow(types)

\* C6: adding a document that was added before leaves the aggregate as it
\* is, and the Schema built is that of each document added once.
C6_Idempotent ==
    /\ pc = "gen" =>
          \A d \in DocIds :
              seen[d] > 0 => add_value(criteria, types, Docs[d]) = types
    /\ pc = "built" =>
          schema = build(InDocsOrder(criteria, Support(seen), Len(Docs)))

\* A document was added twice, another one in between or around it.
C6_Witness ==
    /\ pc = "built"
    /\ seen[Id(DocNest)] = 2 /\ seen[Id(DocArrObj)] = 1
(***************************************************************************)
(* What the documents show at a position, read from the documents alone.   *)
(* A position is reached from the set of values seen at its parent: the    *)
(* element slot collects the elements of every array, the field f of the   *)
(* Object labelled l collects f of every object with that label.           *)
(***************************************************************************)
SeenValues == {Docs[d] : d \in {x \in DocIds : seen[x] > 0}}

Elements(vals) ==
    UNION {{v.items[i] : i \in DOMAIN v.items} : v \in {x \in vals : x.j = "array"}}

ObjectsAt(c, path, vals, label) ==
    {v \in {x \in vals : x.j = "object"} : ObjectLabel(c, path, v.fields) = label}

LabelsAt(c, path, vals) ==
    {ObjectLabel(c, path, v.fields) : v \in {x \in vals : x.j = "object"}}

FieldValues(objs, f) == {v.fields[f] : v \in {x \in objs : f \in DOMAIN x.fields}}

FieldAbsent(objs, f) == \E v \in objs : f \notin DOMAIN v.fields

RECURSIVE NullableExact(_, _, _, _, _)
NullableExact(c, path, ts, vals, absent) ==
    /\ ts.nullable <=> (VNull \in vals \/ absent)
    /\ \A s \in ts.types :
          CASE s.k = "Array" ->
                  NullableExact(c, path, s.ts, Elements(vals), FALSE)
            [] s.k = "Object" ->
                  LET objs == ObjectsAt(c, path, vals, s.label)
                  IN  \A f \in DOMAIN s.o :
                          NullableExact(c, Append(path, f), s.o[f],
                                        FieldValues(objs, f), FieldAbsent(objs, f))
            [] OTHER -> TRUE

\* The same for a built Schema, followed where one Struct stands for the
\* objects of a position (through arrays and the Array arm of an Enum).
RECURSIVE SchemaNullableExact(_, _, _, _, _, _)
SchemaNullableExact(s, c, path, st, vals, absent) ==
    /\ st.is_nullable <=> (VNull \in vals \/ absent)
    /\ LET arms == IF st.typ.k = "Enum"
                   THEN {s.enums[st.typ.id][v] : v \in DOMAIN s.enums[st.typ.id]}
                   ELSE {st.typ}
           labels == LabelsAt(c, path, vals)
       IN  \A a \in arms :
               CASE a.k = "Array" ->
                       SchemaNullableExact(s, c, path, a.elem, Elements(vals), FALSE)
                 [] a.k = "Struct" /\ Cardinality(labels) = 1 ->
                       LET objs == ObjectsAt(c, path, vals, CHOOSE l \in labels : TRUE)
                       IN  \A f \in DOMAIN s.structs[a.id] :
                               SchemaNullableExact(s, c, Append(path, f),
                                                   s.structs[a.id][f],
                                                   FieldValues(objs, f),
                                                   FieldAbsent(objs, f))
                 [] OTHER -> TRUE

\* C4: a position's nullable flag, and is_nullable of the SchemaType built
\* from it, is true exactly when Null was seen at the position or the position
\* is a field missing from one of the objects merged at its parent.
C4_NullableExact ==
    /\ pc = "gen" => NullableExact(criteria, <<>>, types, SeenValues, FALSE)
    /\ pc = "built" =>
          SchemaNullableExact(schema, criteria, <<>>, schema.root, SeenValues, FALSE)

\* {"a":1} was merged first and b appeared only later, in {"a":1,"b":"x"}: in
\* the Schema b is nullable and a, present and non-null in both, is not.
C4_Witness ==
    /\ pc = "built"
    /\ seen[Id(DocA)] = 1 /\ seen[Id(DocAB)] = 1 /\ SeenCount = 2
    /\ schema.structs[0]["b"].is_nullable
    /\ ~schema.structs[0]["a"].is_nullable

RECURSIVE ShapesExact(_, _, _, _)
ShapesExact(c, path, ts, vals) ==
    LET objects == {s \in ts.types : s.k = "Object"}
        arrays == {s \in ts.types : s.k = "Array"}
    IN  /\ \A s, t \in objects : s.label = t.label => s = t
        /\ {s.label : s \in objects} = LabelsAt(c, path, vals)
        /\ Cardinality(arrays) <= 1
        /\ \A s \in arrays : ShapesExact(c, path, s.ts, Elements(vals))
        /\ \A s \in objects :
              LET objs == ObjectsAt(c, path, vals, s.label)
              IN  /\ DOMAIN s.o = UNION {DOMAIN v.fields : v \in objs}
                  /\ \A f \in DOMAIN s.o :
                        /\ s.o[f].nullable <=>
                              (VNull \in FieldValues(objs, f) \/ FieldAbsent(objs, f))
                        /\ ShapesExact(c, Append(path, f), s.o[f], FieldValues(objs, f))

NotNull(typ) == [is_nullable |-> FALSE, typ |-> typ]

\* The Schema of scenario D: an Enum at body with one Struct per value of type.
ScenarioD ==
    [root |-> NotNull(SStruct(0)),
     structs |->
        (0 :> [f \in {"body"} |-> NotNull(SEnum(1))])
        @@ (2 :> [f \in {"type", "radius"} |->
                    IF f = "type" THEN NotNull([k |-> "String"])
                    ELSE NotNull([k |-> "U64"])])
        @@ (3 :> [f \in {"type", "luminosity"} |->
                    IF f = "type" THEN NotNull([k |-> "String"])
                    ELSE NotNull([k |-> "U64"])]),
     enums |->
        (1 :> ((Variant_Struct(2) :> SStruct(2)) @@ (Variant_Struct(3) :> SStruct(3))))]

OnlyPlanetAndStar ==
    /\ seen[Id(DocPlanet)] > 0 /\ seen[Id(DocStar)] > 0
    /\ \A d \in DocIds \ {Id(DocPlanet), Id(DocStar)} : seen[d] = 0

\* C5: at every position there is one Object entry per label seen there,
\* holding the union of the fields of the objects of that label, a field
\* nullable when one of them lacks it; and with body split on type the planet
\* and the star sample give an Enum at body with two Struct arms, each with
\* its own fields only and none nullable.
C5_LabelsSplitAndMerge ==
    /\ pc = "gen" => ShapesExact(criteria, <<>>, types, SeenValues)
    /\ (pc = "built" /\ criteria = {<<(<<"body">>), "type">>} /\ OnlyPlanetAndStar)
          => schema = ScenarioD

\* Scenario D was built, the star sample added before or after the planet's.
C5_Witness ==
    /\ pc = "built"
    /\ criteria = {<<(<<"body">>), "type">>}
    /\ OnlyPlanetAndStar
    /\ schema.structs[0]["body"].typ = SEnum(1)

\* With the split two planet samples merged into one Struct beside the star's.
C5_MergeWitness ==
    /\ pc = "built"
    /\ criteria # {}
    /\ seen[Id(DocPlanet)] = 1 /\ seen[Id(DocStar)] = 1 /\ seen[Id(DocPlanet2)] = 1
    /\ DOMAIN schema.structs[2] = {"type", "radius", "mass"}
\* The names of the declarations a sequence of writes opens, in order.
DeclNames(ws) ==
    LET heads == SelectSeq(ws, LAMBDA w : w.w \in {"open", "wrapper"})
    IN  [i \in 1..Len(heads) |->
            IF heads[i].w = "wrapper" THEN Tok("Root") ELSE heads[i].name]

TableNames(prefix, ids) ==
    [i \in 1..Len(SortedIds(ids)) |-> TokId(prefix, SortedIds(ids)[i])]

\* C7: a print that returned Ok has declared the root, then every entry of
\* the structs table in ascending id order, then every entry of the enums
\* table in ascending id order, whatever the kind of the root.
C7_DeclaresRootStructsEnums ==
    result = "Ok" =>
        DeclNames(out) = <<Tok("Root")>>
                         \o TableNames("Struct", DOMAIN schema.structs)
                         \o TableNames("Enum", DOMAIN schema.enums)

\* What holds of a print in every state: at most one write was rejected, the
\* result is that write's error, and the output is the accepted writes.
C8_Invariant ==
    /\ Len(rejected) <= 1
    /\ result = "none" => rejected = <<>> /\ attempts = Len(out)
    /\ result \in SinkErrors =>
          rejected = <<result>> /\ attempts = Len(out) + 1 /\ pc = "printed"
    /\ result = "Ok" => rejected = <<>> /\ out = Schema_print(schema)
    /\ pc = "printed" => (result = "Ok" <=> rejected = <<>>)
    /\ out = SubSeq(Schema_print(schema), 1, Len(out))

\* C8: a rejected write ends print with that error, no write is attempted
\* after it and it is the only rejected write; print returns Ok exactly when
\* every write was accepted, and then all of them were made.
C8_WriteErrorPropagates ==
    /\ []C8_Invariant
    /\ [][rejected # <<>> => UNCHANGED <<out, attempts, rejected, result>>]_vars

\* The sink rejected a write in the middle of the output.
C8_Witness ==
    /\ result \in SinkErrors
    /\ Len(out) >= 3
    /\ pos < Len(Schema_print(schema))

RECURSIVE Canonical(_, _, _)
RECURSIVE ShapeIs(_, _, _)

\* typ is the canonical type of the shape t.
ShapeIs(s, t, typ) ==
    CASE t.k = "Array" -> typ.k = "Array" /\ Canonical(s, t.ts, typ.elem)
      [] t.k = "Object" ->
            /\ typ.k = "Struct"
            /\ typ.id \in DOMAIN s.structs
            /\ DOMAIN s.structs[typ.id] = DOMAIN t.o
            /\ \A f \in DOMAIN t.o : Canonical(s, t.o[f], s.structs[typ.id][f])
      [] OTHER -> typ = [k |-> t.k]

\* st is what the position ts must map to, by its number of non-null shapes.
Canonical(s, ts, st) ==
    LET shapes == ts.types \ {TNull}
    IN  /\ st.is_nullable = ts.nullable
        /\ CASE Cardinality(shapes) = 0 -> st.typ = Unit
             [] Cardinality(shapes) = 1 ->
                   ShapeIs(s, CHOOSE t \in shapes : TRUE, st.typ)
             [] OTHER ->
                   /\ st.typ.k = "Enum"
                   /\ st.typ.id \in DOMAIN s.enums
                   /\ \A t \in shapes :
                         \E v \in DOMAIN s.enums[st.typ.id] :
                             ShapeIs(s, t, s.enums[st.typ.id][v])

\* The number of positions with more than one non-null shape.
RECURSIVE EnumPositions(_)
RECURSIVE EnumPositionsOf(_)
RECURSIVE EnumPositionsIn(_, _)
EnumPositionsOf(t) ==
    CASE t.k = "Array" -> EnumPositions(t.ts)
      [] t.k = "Object" -> EnumPositionsIn(t.o, DOMAIN t.o)
      [] OTHER -> 0

EnumPositionsIn(o, fields) ==
    IF fields = {} THEN 0
    ELSE LET f == CHOOSE x \in fields : TRUE
         IN  EnumPositions(o[f]) + EnumPositionsIn(o, fields \ {f})

EnumPositions(ts) ==
    LET RECURSIVE Inside(_)
        Inside(shapes) ==
            IF shapes = {} THEN 0
            ELSE LET t == CHOOSE x \in shapes : TRUE
                 IN  EnumPositionsOf(t) + Inside(shapes \ {t})
    IN  (IF variants_count(ts) > 1 THEN 1 ELSE 0) + Inside(ts.types)

\* C9: every position maps by its number of non-null shapes: none to Unit,
\* one to the type of that shape, more to an Enum with an arm for each;
\* is_nullable is the position's flag; and the Schema has exactly one Enum
\* per position with more than one non-null shape.
C9_ParseByVariantCount ==
    pc = "built" =>
        /\ Canonical(schema, types, schema.root)
        /\ Cardinality(DOMAIN schema.enums) = EnumPositions(types)

\* Scenario B: {"a":1} and {"a":"x"} give one Enum with arms U64 and String
\* at a, which is not nullable.
C9_Witness ==
    /\ pc = "built"
    /\ seen[Id(DocA)] = 1 /\ seen[Id(DocAStr)] = 1 /\ SeenCount = 2
    /\ schema.structs[0]["a"] = NotNull(SEnum(1))
    /\ DOMAIN schema.enums[1] = {Variant_primitive("U64"), Variant_primitive("String")}

\* The ids a type names, through arrays.
RECURSIVE NamedIds(_)
NamedIds(typ) ==
    CASE typ.k \in {"Struct", "Enum"} -> {typ.id}
      [] typ.k = "Array" -> NamedIds(typ.elem.typ)
      [] OTHER -> {}

\* The ids named inside the definition id.
Children(s, id) ==
    IF id \in DOMAIN s.structs
    THEN UNION {NamedIds(s.structs[id][f].typ) : f \in DOMAIN s.structs[id]}
    ELSE UNION {NamedIds(s.enums[id][v]) : v \in DOMAIN s.enums[id]}

\* A set of ids and every id defined below them (ids grow downwards).
RECURSIVE Below(_, _)
Below(s, ids) ==
    IF ids = {} THEN {}
    ELSE ids \cup Below(s, UNION {Children(s, i) : i \in ids})

\* C10: after build the ids are exactly 0..n-1 for the counter value n, no id
\* is in both tables, every definition has a smaller id than those nested in
\* it, and all ids below a field are smaller than those below a later field.
C10_IdsDepthFirst ==
    pc = "built" =>
        LET n == BuildRun(types).b.id
            ids == (DOMAIN schema.structs) \cup (DOMAIN schema.enums)
        IN  /\ SchemaBuilder_new.id = 0
            /\ ids = 0..(n - 1)
            /\ (DOMAIN schema.structs) \cap (DOMAIN schema.enums) = {}
            /\ \A i \in ids : \A c \in Children(schema, i) : c > i
            /\ \A i \in DOMAIN schema.structs :
                  \A f, g \in DOMAIN schema.structs[i] :
                      IndexOf(FieldOrder, f) < IndexOf(FieldOrder, g) =>
                          \A x \in Below(schema, NamedIds(schema.structs[i][f].typ)) :
                              \A y \in Below(schema, NamedIds(schema.structs[i][g].typ)) :
                                  x < y

\* A root Struct whose field a is an Enum and whose later field b is a
\* Struct: ids 0, 1, 2 in that order.
C10_Witness ==
    /\ pc = "built"
    /\ seen[Id(DocA)] = 1 /\ seen[Id(DocAStr)] = 1 /\ seen[Id(DocNest)] = 1
    /\ schema.structs[0]["a"].typ = SEnum(1)
    /\ schema.structs[0]["b"].typ = SStruct(2)
\* C11: build() returns a Schema and never panics, for the empty aggregate,
\* for positions that saw only Null and for empty arrays too: from every
\* aggregate the generator reaches the canonicalizer runs to its end.
C11_BuildTotal ==
    /\ pc # "panicked"
    /\ pc = "gen" => ~BuildRun(types).b.panicked

\* A position is Unit: no shape, or Null alone.
RECURSIVE HasUnit(_, _)
HasUnit(s, typ) ==
    CASE typ.k = "Unit" -> TRUE
      [] typ.k = "Array" -> HasUnit(s, typ.elem.typ)
      [] typ.k = "Struct" ->
            \E f \in DOMAIN s.structs[typ.id] : HasUnit(s, s.structs[typ.id][f].typ)
      [] typ.k = "Enum" ->
            \E v \in DOMAIN s.enums[typ.id] : HasUnit(s, s.enums[typ.id][v])
      [] OTHER -> FALSE

\* Built from Null at the root, a field that saw only Null and an empty array.
C11_Witness ==
    /\ pc = "built"
    /\ seen[Id(VNull)] = 1 /\ seen[Id(DocNest)] = 1 /\ seen[Id(DocArrEmpty)] = 1
    /\ schema.root.is_nullable
    /\ HasUnit(schema, schema.root.typ)
\* C12: a root Struct or Enum has id 0 and entry 0 of its table exists, so
\* the lookups of id 0 in Schema::print find the root's own definition: print
\* never panics and its first declaration, Root, is that definition.
C12_RootIsEntryZero ==
    pc \in {"built", "printing", "printed"} =>
        /\ is_struct(schema.root) =>
              /\ schema.root.typ.id = 0
              /\ 0 \in DOMAIN schema.structs
              /\ result = "Ok" =>
                    SubSeq(out, 1, Len(Struct_print(schema.structs[schema.root.typ.id], Tok("Root"))))
                        = Struct_print(schema.structs[schema.root.typ.id], Tok("Root"))
        /\ is_enum(schema.root) =>
              /\ schema.root.typ.id = 0
              /\ 0 \in DOMAIN schema.enums
              /\ result = "Ok" =>
                    SubSeq(out, 1, Len(Enum_print(schema.enums[schema.root.typ.id], Tok("Root"))))
                        = Enum_print(schema.enums[schema.root.typ.id], Tok("Root"))
        /\ ~PrintPanics(schema)
        /\ result # "panic"

\* A Schema whose root is an Enum was printed to the end.
C12_Witness ==
    /\ pc = "printed"
    /\ result = "Ok"
    /\ is_enum(schema.root)
    /\ Len(out) > 3

\* The ids of one table (kind "Struct" or "Enum") a type names, through
\* arrays.
RECURSIVE Refs(_, _)
Refs(kind, typ) ==
    CASE typ.k = kind -> {typ.id}
      [] typ.k = "Array" -> Refs(kind, typ.elem.typ)
      [] OTHER -> {}

FieldPositions(s) ==
    UNION {{<<i, f>> : f \in DOMAIN s.structs[i]} : i \in DOMAIN s.structs}

ArmPositions(s) ==
    UNION {{<<i, v>> : v \in DOMAIN s.enums[i]} : i \in DOMAIN s.enums}

\* Every id of the table `kind` named anywhere in the Schema.
AllRefs(s, kind) ==
    Refs(kind, s.root.typ)
    \cup UNION {Refs(kind, s.structs[p[1]][p[2]].typ) : p \in FieldPositions(s)}
    \cup UNION {Refs(kind, s.enums[p[1]][p[2]]) : p \in ArmPositions(s)}

\* The number of positions (root, field, arm; an array with its element
\* slot) that name id of the table `kind`.
RefCount(s, kind, id) ==
    (IF id \in Refs(kind, s.root.typ) THEN 1 ELSE 0)
    + Cardinality({p \in FieldPositions(s) :
                       id \in Refs(kind, s.structs[p[1]][p[2]].typ)})
    + Cardinality({p \in ArmPositions(s) : id \in Refs(kind, s.enums[p[1]][p[2]])})

\* C13: every Struct(id) and Enum(id) named in the root, a field, an array
\* element type or an enum arm is a key of its table, and every table entry
\* is named from exactly one position.
C13_ReferentiallyClosed ==
    pc = "built" =>
        /\ AllRefs(schema, "Struct") \subseteq DOMAIN schema.structs
        /\ AllRefs(schema, "Enum") \subseteq DOMAIN schema.enums
        /\ \A i \in DOMAIN schema.structs : RefCount(schema, "Struct", i) = 1
        /\ \A i \in DOMAIN schema.enums : RefCount(schema, "Enum", i) = 1

\* Structs and Enums named from the root, from fields, from array element
\* types and from enum arms.
C13_Witness ==
    /\ pc = "built"
    /\ seen[Id(DocArrObj)] = 1 /\ seen[Id(DocArrMix)] = 1 /\ seen[Id(DocNest)] = 1
    /\ Cardinality(DOMAIN schema.structs) >= 3
    /\ Cardinality(DOMAIN schema.enums) >= 2

\* The types the shapes of a position were mapped to: the arms of its Enum,
\* or its one type.
ArmsOf(s, st) ==
    IF st.typ.k = "Enum" /\ st.typ.id \in DOMAIN s.enums
    THEN {s.enums[st.typ.id][v] : v \in DOMAIN s.enums[st.typ.id]}
    ELSE {st.typ}

RECURSIVE ArmsExact(_, _, _)
ArmsExact(s, ts, st) ==
    LET shapes == ts.types \ {TNull}
    IN  /\ Cardinality({t \in shapes : t.k = "Array"}) <= 1
        /\ \A t, u \in shapes :
              (t.k = "Object" /\ u.k = "Object" /\ t.label = u.label) => t = u
        /\ Cardinality(shapes) > 1 =>
              /\ st.typ.k = "Enum"
              /\ st.typ.id \in DOMAIN s.enums
              /\ Cardinality(DOMAIN s.enums[st.typ.id]) = Cardinality(shapes)
        /\ \A t \in shapes :
              \E typ \in ArmsOf(s, st) :
                  /\ ShapeIs(s, t, typ)
                  /\ CASE t.k = "Array" -> ArmsExact(s, t.ts, typ.elem)
                       [] t.k = "Object" ->
                             \A f \in DOMAIN t.o :
                                 ArmsExact(s, t.o[f], s.structs[typ.id][f])
                       [] OTHER -> TRUE

\* C14: every Enum has one arm per distinct non-null shape of its position
\* (no two shapes share a Variant tag, so Enum::add overwrites nothing): a
\* position holds at most one Array and one Object per label, and every Enum
\* has at least two arms.
C14_OneArmPerShape ==
    pc = "built" =>
        /\ ArmsExact(schema, types, schema.root)
        /\ \A i \in DOMAIN schema.enums : Cardinality(DOMAIN schema.enums[i]) >= 2
        /\ \A i \in DOMAIN schema.enums :
              \A v \in DOMAIN schema.enums[i] : varinat(schema.enums[i][v]) = v

\* Three Enums: Array and Struct at the root, two Structs at body, Float and
\* Struct in the array's element slot.
C14_Witness ==
    /\ pc = "built"
    /\ criteria # {}
    /\ seen[Id(DocPlanet)] = 1 /\ seen[Id(DocStar)] = 1 /\ seen[Id(DocArrMix)] = 1
    /\ Cardinality(DOMAIN schema.enums) = 3
    /\ \E i \in DOMAIN schema.enums :
          \A v \in DOMAIN schema.enums[i] : v.v = "Struct"
====
